---- MODULE Spec2Model ----
(***************************************************************************)
(* A model of the transforms of reagent/preprocessing/transforms.py.       *)
(*                                                                         *)
(* One transform instance `t` is built by a constructor and then called on *)
(* a sequence of records.  Every call is one step: the whole __call__ of   *)
(* the class runs, and the step records the record it was given (`arg`),   *)
(* and what came out (`res`): the exception raised, the record returned,   *)
(* the state of the record object that was passed in (the transforms       *)
(* mutate it in place), and the stages a sequencing transform ran.         *)
(*                                                                         *)
(* A Python dict is a sequence of entries in insertion order.  A Python    *)
(* value is a record with a `kind` field: None, a list, an int, a tuple,   *)
(* a tensor (its shape and a name standing for its contents), a mapping.   *)
(***************************************************************************)
EXTENDS Integers, Sequences, FiniteSets, TLC

VARIABLES
    t,      \* the transform instance the caller holds ([cls |-> "none"] before construction)
    op,     \* the last operation: "start", "<Class>.__init__", "<Class>.__call__"
    arg,    \* its argument: the record passed to __call__, the arguments of __init__
    res     \* its outcome: [exc, ret, data, trace]

vars == <<t, op, arg, res>>

-----------------------------------------------------------------------------
(* Bounds of the model *)

\* longest key list given to Filter and Rename
MaxKeys == 2
\* most stages in a Compose
MaxStages == 2
\* largest batch (number of offsets) of a ragged sequence
MaxBatch == 3
\* largest stride of the generated offsets
MaxStride == 3
\* width of the feature tensors
FeatureDim == 2
\* the expected_length given to a constructor that is given one
ConfiguredLength == 2
\* most dimensions of a tensor given to Cat
MaxRank == 3
\* largest size of a dimension of a tensor given to Cat or OuterProduct
MaxSize == 2

-----------------------------------------------------------------------------
(* Python values *)

PyNone == [kind |-> "None"]
PyList(items) == [kind |-> "list", items |-> items]
PyInt(n) == [kind |-> "int", n |-> n]
PyTuple(a, b) == [kind |-> "tuple", items |-> <<a, b>>]
Tensor(id, shape) == [kind |-> "Tensor", id |-> id, shape |-> shape]

IsNone(v) == v.kind = "None"

\* Python truthiness of None and of a list (`if self.keep_keys:`, `to_keys or keys`)
Truthy(v) ==
    CASE v.kind = "None" -> FALSE
      [] v.kind = "list" -> Len(v.items) > 0
      [] v.kind = "int" -> v.n # 0
      [] OTHER -> TRUE

-----------------------------------------------------------------------------
(* Python dict: a sequence of [k, v] entries in insertion order *)

Has(d, k) == \E i \in 1..Len(d) : d[i].k = k
Get(d, k) == d[CHOOSE i \in 1..Len(d) : d[i].k = k].v
Keys(d) == {d[i].k : i \in 1..Len(d)}
KeyList(d) == [i \in 1..Len(d) |-> d[i].k]
\* d[k] = v: an existing key keeps its place, a new key goes last
Set(d, k, v) ==
    IF Has(d, k)
    THEN [i \in 1..Len(d) |-> IF d[i].k = k THEN [k |-> k, v |-> v] ELSE d[i]]
    ELSE Append(d, [k |-> k, v |-> v])
\* del d[k]
Del(d, k) == SelectSeq(d, LAMBDA e : e.k # k)

\* the elements of a sequence, as a set
Range(s) == {s[i] : i \in 1..Len(s)}

-----------------------------------------------------------------------------
(* Outcomes of a call and of a constructor *)

NoInstance == [cls |-> "none"]

\* the call raised e; the record object was left as `data`
Raise(e, data, inst, trace) ==
    [exc |-> e, ret |-> PyNone, data |-> data, t |-> inst, trace |-> trace]
\* the call returned `ret`; the record object passed in is now `data`
Return(ret, data, inst, trace) ==
    [exc |-> "none", ret |-> ret, data |-> data, t |-> inst, trace |-> trace]

\* the part of an outcome the caller observes
Outcome(r) == [exc |-> r.exc, ret |-> r.ret, data |-> r.data, trace |-> r.trace]

\* one entry of a trace: the stage that was called and how it ended
Stage(name, exc) == [stage |-> name, exc |-> exc]

Built(inst) == [exc |-> "none", t |-> inst]
InitFails(e) == [exc |-> e, t |-> NoInstance]

-----------------------------------------------------------------------------
(* ValuePresence *)

ValuePresence_init == Built([cls |-> "ValuePresence"])

\* the loop of __call__ over the keys listed before it started, from the i-th on
RECURSIVE ValuePresence_loop(_, _, _, _)
ValuePresence_loop(inst, keys, i, data) ==
    IF i > Len(keys) THEN Return(data, data, inst, <<>>)
    ELSE LET k == keys[i]
             presence_key == k \o "_presence"
         IN  IF Has(data, presence_key)
             THEN IF ~Has(data, k)
                  THEN Raise("KeyError", data, inst, <<>>)
                  ELSE ValuePresence_loop(inst, keys, i + 1,
                         Del(Set(data, k, PyTuple(Get(data, k), Get(data, presence_key))),
                             presence_key))
             ELSE ValuePresence_loop(inst, keys, i + 1, data)

ValuePresence_call(inst, data) == ValuePresence_loop(inst, KeyList(data), 1, data)

-----------------------------------------------------------------------------
(* Rename *)

Rename_init(old_names, new_names) ==
    Built([cls |-> "Rename", old_names |-> old_names, new_names |-> new_names])

Min(a, b) == IF a < b THEN a ELSE b

\* the loop of __call__ over zip(old_names, new_names), from the i-th pair on;
\* new_data is the copy being built, data the record passed in
RECURSIVE Rename_loop(_, _, _, _)
Rename_loop(inst, i, data, new_data) ==
    IF i > Min(Len(inst.old_names), Len(inst.new_names))
    THEN Return(new_data, data, inst, <<>>)
    ELSE LET o == inst.old_names[i]
             n == inst.new_names[i]
         IN  IF ~Has(new_data, o) THEN Raise("KeyError", data, inst, <<>>)
             ELSE Rename_loop(inst, i + 1, data,
                              Set(Del(new_data, o), n, Get(new_data, o)))

Rename_call(inst, data) == Rename_loop(inst, 1, data, data)

-----------------------------------------------------------------------------
(* Filter *)

Filter_init(keep_keys, remove_keys) ==
    IF IsNone(keep_keys) # IsNone(remove_keys)
    THEN Built([cls |-> "Filter", keep_keys |-> keep_keys, remove_keys |-> remove_keys])
    ELSE InitFails("AssertionError")

RECURSIVE Filter_keep(_, _, _, _)
Filter_keep(keep_keys, i, data, new_data) ==
    IF i > Len(keep_keys) THEN new_data
    ELSE LET k == keep_keys[i]
         IN  Filter_keep(keep_keys, i + 1, data,
                         IF Has(data, k) THEN Set(new_data, k, Get(data, k)) ELSE new_data)

RECURSIVE Filter_remove(_, _, _)
Filter_remove(remove_keys, i, new_data) ==
    IF i > Len(remove_keys) THEN new_data
    ELSE LET k == remove_keys[i]
         IN  Filter_remove(remove_keys, i + 1,
                           IF Has(new_data, k) THEN Del(new_data, k) ELSE new_data)

Filter_call(inst, data) ==
    IF Truthy(inst.keep_keys)
    THEN Return(Filter_keep(inst.keep_keys.items, 1, data, <<>>), data, inst, <<>>)
    ELSE IF IsNone(inst.remove_keys)
         THEN Raise("TypeError", data, inst, <<>>)
         ELSE Return(Filter_remove(inst.remove_keys.items, 1, data), data, inst, <<>>)

-----------------------------------------------------------------------------
(* Tensors of the sequence transforms *)

\* a 1-D integer tensor, by its values (the offsets of a ragged sequence)
IntTensor(values) == [kind |-> "IntTensor", values |-> values]
\* a mapping value (a dict held in a field), by its entries
PyDict(items) == [kind |-> "dict", items |-> items]

\* torch.arange(0, n * step, step) for step # 0: n values
Arange(n, step) == [i \in 1..n |-> (i - 1) * step]

-----------------------------------------------------------------------------
(* FixedLengthSequences *)

FixedLengthSequences_init(keys, sequence_id, expected_length, to_keys) ==
    LET to_keys_or_keys == IF Truthy(to_keys) THEN to_keys.items ELSE keys
    IN  IF Len(to_keys_or_keys) = Len(keys)
        THEN Built([cls |-> "FixedLengthSequences", keys |-> keys,
                    sequence_id |-> sequence_id, to_keys |-> to_keys_or_keys,
                    expected_length |-> expected_length])
        ELSE InitFails("AssertionError")

\* the local expected_length of one iteration: self.expected_length, or when that
\* is None the stride read off this batch (the gap of the first two offsets, or
\* for a batch of one the length of the payload's value)
\* ExpectedLength with the cached stride ignored: every call infers it again
ExpectedLength_reinfer(inst, offsets, value) ==
    IF Len(offsets) > 1
    THEN offsets[2] - offsets[1]
    ELSE value.items[1].shape[1]

ExpectedLength(inst, offsets, value) ==
    IF IsNone(inst.expected_length)
    THEN IF Len(offsets) > 1
         THEN offsets[2] - offsets[1]
         ELSE value.items[1].shape[1]
    ELSE inst.expected_length.n

\* FixedLengthSequences_loop storing only the first component of the payload
RECURSIVE FixedLengthSequences_loop_values(_, _, _)
FixedLengthSequences_loop_values(inst, i, data) ==
    IF i > Len(inst.keys) THEN Return(data, data, inst, <<>>)
    ELSE LET key == inst.keys[i]
             to_key == inst.to_keys[i]
         IN  IF ~Has(data, key) \/ ~Has(Get(data, key).items, inst.sequence_id)
             THEN Raise("KeyError", data, inst, <<>>)
             ELSE LET entry == Get(Get(data, key).items, inst.sequence_id)
                      offsets == entry.items[1].values
                      value == entry.items[2]
                      expected_length == ExpectedLength(inst, offsets, value)
                      self == [inst EXCEPT !.expected_length = PyInt(expected_length)]
                  IN  IF expected_length = 0
                      THEN Raise("RuntimeError", data, self, <<>>)
                      ELSE IF Arange(Len(offsets), expected_length) # offsets
                      THEN Raise("AssertionError", data, self, <<>>)
                      ELSE FixedLengthSequences_loop_values(self, i + 1,
                                                            Set(data, to_key, value.items[1]))

\* the loop of __call__ from the i-th key on; inst carries self.expected_length
RECURSIVE FixedLengthSequences_loop(_, _, _)
FixedLengthSequences_loop(inst, i, data) ==
    IF i > Len(inst.keys) THEN Return(data, data, inst, <<>>)
    ELSE LET key == inst.keys[i]
             to_key == inst.to_keys[i]
         IN  IF ~Has(data, key) \/ ~Has(Get(data, key).items, inst.sequence_id)
             THEN Raise("KeyError", data, inst, <<>>)
             ELSE LET entry == Get(Get(data, key).items, inst.sequence_id)
                      offsets == entry.items[1].values
                      value == entry.items[2]
                      expected_length == ExpectedLength(inst, offsets, value)
                      self == [inst EXCEPT !.expected_length = PyInt(expected_length)]
                  IN  IF expected_length = 0
                      THEN Raise("RuntimeError", data, self, <<>>)
                      ELSE IF Arange(Len(offsets), expected_length) # offsets
                      THEN Raise("AssertionError", data, self, <<>>)
                      ELSE FixedLengthSequences_loop(self, i + 1, Set(data, to_key, value))

FixedLengthSequences_call(inst, data) == FixedLengthSequences_loop(inst, 1, data)

-----------------------------------------------------------------------------
(* DenseNormalization *)

\* `built` counts the Preprocessor objects this instance has constructed; the
\* object it holds is known by its number
DenseNormalization_init(keys) ==
    Built([cls |-> "DenseNormalization", keys |-> keys,
           preprocessor |-> PyNone, built |-> 0])

\* Preprocessor(...)(value, presence).float(): the collaborator's dense output
Preprocess(preprocessor, value, presence) ==
    Tensor("normalized(" \o value.id \o ")", value.shape)

\* the values that are tensors, and their shapes
IsTensor(v) == v.kind \in {"Tensor", "IntTensor"}
ShapeOf(v) == IF v.kind = "IntTensor" THEN <<Len(v.values)>> ELSE v.shape

\* `value, presence = data[k]` iterates data[k]: a tuple gives its items, a
\* list its items, a dict its keys, a tensor its rows along the first
\* dimension (an offsets tensor its entries, as tensors without dimensions);
\* None, an int and a tensor without dimensions cannot be iterated
Row(x, r) == Tensor(x.id \o "[" \o ToString(r) \o "]", Tail(x.shape))
Iterable(v) ==
    \/ v.kind \in {"tuple", "list", "dict", "IntTensor"}
    \/ v.kind = "Tensor" /\ Len(v.shape) >= 1
\* how many values the iteration gives
Count(v) ==
    CASE v.kind \in {"tuple", "list", "dict"} -> Len(v.items)
      [] v.kind = "IntTensor" -> Len(v.values)
      [] v.kind = "Tensor" -> v.shape[1]
\* the unpacking into two names needs exactly two values
UnpackError(v) ==
    IF ~Iterable(v) THEN "TypeError"
    ELSE IF Count(v) # 2 THEN "ValueError"
    ELSE "none"
\* the two values, of a tuple or a tensor
Unpack(v) ==
    CASE v.kind = "tuple" -> v.items
      [] v.kind = "IntTensor" ->
            [i \in 1..Len(v.values) |-> Tensor(ToString(v.values[i]), <<>>)]
      [] v.kind = "Tensor" -> [i \in 1..v.shape[1] |-> Row(v, i - 1)]
\* `value.to(self.device)`, `presence.to(self.device)`: both must be tensors.
\* The items of a list are names and the keys of a dict are names or ids:
\* neither has `.to`
BothTensors(v) ==
    /\ v.kind \notin {"list", "dict"}
    /\ \A x \in Range(Unpack(v)) : IsTensor(x)

\* `presence[torch.isnan(value)] = 0`: the mask has the shape of value and
\* must fit the leading dimensions of presence
MaskFits(value, presence) ==
    /\ Len(ShapeOf(value)) <= Len(ShapeOf(presence))
    /\ \A i \in 1..Len(ShapeOf(value)) : ShapeOf(value)[i] = ShapeOf(presence)[i]

\* the loop of __call__ from the i-th key on.  Tensors are known here by name
\* and shape, not by their entries: the zeroing of the NaN entries of value and
\* presence (lines 121-122) changes entries only, and is checked for its shapes
RECURSIVE DenseNormalization_loop(_, _, _, _)
DenseNormalization_loop(inst, i, data, trace) ==
    IF i > Len(inst.keys) THEN Return(data, data, inst, trace)
    ELSE LET k == inst.keys[i]
         IN  IF ~Has(data, k) THEN Raise("KeyError", data, inst, trace)
             ELSE LET v == Get(data, k)
                  IN  IF UnpackError(v) # "none"
                      THEN Raise(UnpackError(v), data, inst, trace)
                      ELSE IF ~BothTensors(v)
                      THEN Raise("AttributeError", data, inst, trace)
                      ELSE IF ~MaskFits(Unpack(v)[1], Unpack(v)[2])
                      THEN Raise("IndexError", data, inst, trace)
                      ELSE DenseNormalization_loop(inst, i + 1,
                             Set(data, k, Preprocess(inst.preprocessor,
                                                     Unpack(v)[1], Unpack(v)[2])),
                             trace)

\* DenseNormalization_prepare without the `is None` test: every call constructs
DenseNormalization_prepare_always(inst) ==
    [inst EXCEPT !.preprocessor = [kind |-> "Preprocessor", serial |-> inst.built + 1],
                 !.built = inst.built + 1]

\* `if self._preprocessor is None: self._preprocessor = Preprocessor(...)`
DenseNormalization_prepare(inst) ==
    IF IsNone(inst.preprocessor)
    THEN [inst EXCEPT !.preprocessor = [kind |-> "Preprocessor", serial |-> inst.built + 1],
                      !.built = inst.built + 1]
    ELSE inst

\* the trace of a call names the Preprocessor constructor when the call ran it
DenseNormalization_call(inst, data) ==
    DenseNormalization_loop(DenseNormalization_prepare(inst), 1, data,
                            IF DenseNormalization_prepare(inst).built # inst.built
                            THEN <<Stage("Preprocessor.__init__", "none")>>
                            ELSE <<>>)

-----------------------------------------------------------------------------
(* SlateView *)

SlateView_init(keys, slate_size) ==
    Built([cls |-> "SlateView", keys |-> keys, slate_size |-> slate_size])

RECURSIVE SlateView_loop(_, _, _)
SlateView_loop(inst, i, data) ==
    IF i > Len(inst.keys) THEN Return(data, data, inst, <<>>)
    ELSE LET k == inst.keys[i]
         IN  IF ~Has(data, k) THEN Raise("KeyError", data, inst, <<>>)
             ELSE LET value == Get(data, k)
                  IN  IF ~IsTensor(value) THEN Raise("AttributeError", data, inst, <<>>)
                      ELSE IF Len(ShapeOf(value)) # 2 THEN Raise("ValueError", data, inst, <<>>)
                      ELSE IF inst.slate_size.kind # "int"
                      THEN Raise("TypeError", data, inst, <<>>)
                      ELSE LET rows == value.shape[1]
                               dim == value.shape[2]
                               slate_size == inst.slate_size.n
                           IN  \* view(-1, slate_size, dim): one inferred dimension only,
                               \* and the elements must divide evenly
                               IF slate_size <= 0 \/ dim = 0 \/ rows % slate_size # 0
                               THEN Raise("RuntimeError", data, inst, <<>>)
                               ELSE SlateView_loop(inst, i + 1,
                                      Set(data, k,
                                          Tensor(value.id, <<rows \div slate_size, slate_size, dim>>)))

SlateView_call(inst, data) == SlateView_loop(inst, 1, data)

-----
(* FixedLengthSequenceDenseNormalization *)

\* f"{k}:{sequence_id}" for every key
DerivedKeys(keys, sequence_id) ==
    [i \in 1..Len(keys) |-> keys[i] \o ":" \o ToString(sequence_id)]

FixedLengthSequenceDenseNormalization_init(keys, sequence_id, expected_length) ==
    LET to_keys == DerivedKeys(keys, sequence_id)
    IN  Built([cls |-> "FixedLengthSequenceDenseNormalization",
               fixed_length_sequences |->
                   FixedLengthSequences_init(keys, sequence_id, expected_length,
                                             PyList(to_keys)).t,
               dense_normalization |-> DenseNormalization_init(to_keys).t,
               slate_view |-> SlateView_init(to_keys, PyInt(-1)).t])

\* return self.slate_view(data), r3 being the outcome of that call
FixedLengthSequenceDenseNormalization_finish(self, trace, r3) ==
    IF r3.exc # "none"
    THEN Raise(r3.exc, r3.data, [self EXCEPT !.slate_view = r3.t],
               Append(trace, Stage("SlateView", r3.exc)))
    ELSE Return(r3.ret, r3.data, [self EXCEPT !.slate_view = r3.t],
                Append(trace, Stage("SlateView", r3.exc)))

\* FixedLengthSequenceDenseNormalization_reshape without the assignment to
\* self.slate_view.slate_size: the SlateView keeps the size it was built with
FixedLengthSequenceDenseNormalization_reshape_stale(self, trace, r2) ==
    IF r2.exc # "none"
    THEN Raise(r2.exc, r2.data, [self EXCEPT !.dense_normalization = r2.t],
               Append(trace, Stage("DenseNormalization", r2.exc)))
    ELSE FixedLengthSequenceDenseNormalization_finish(
             [self EXCEPT !.dense_normalization = r2.t],
             Append(trace, Stage("DenseNormalization", r2.exc)),
             SlateView_call(self.slate_view, r2.ret))

\* the rest of __call__ after self.dense_normalization(data) ended as r2:
\* self.slate_view.slate_size = self.fixed_length_sequences.expected_length
FixedLengthSequenceDenseNormalization_reshape(self, trace, r2) ==
    IF r2.exc # "none"
    THEN Raise(r2.exc, r2.data, [self EXCEPT !.dense_normalization = r2.t],
               Append(trace, Stage("DenseNormalization", r2.exc)))
    ELSE FixedLengthSequenceDenseNormalization_finish(
             [self EXCEPT !.dense_normalization = r2.t],
             Append(trace, Stage("DenseNormalization", r2.exc)),
             SlateView_call([self.slate_view EXCEPT
                                !.slate_size = self.fixed_length_sequences.expected_length],
                            r2.ret))

\* the rest of __call__ after self.fixed_length_sequences(data) ended as r1
FixedLengthSequenceDenseNormalization_normalize(self, r1) ==
    IF r1.exc # "none"
    THEN Raise(r1.exc, r1.data, [self EXCEPT !.fixed_length_sequences = r1.t],
               <<Stage("FixedLengthSequences", r1.exc)>>)
    ELSE FixedLengthSequenceDenseNormalization_reshape(
             [self EXCEPT !.fixed_length_sequences = r1.t],
             <<Stage("FixedLengthSequences", r1.exc)>>,
             DenseNormalization_call(self.dense_normalization, r1.ret))

FixedLengthSequenceDenseNormalization_call(inst, data) ==
    FixedLengthSequenceDenseNormalization_normalize(
        inst, FixedLengthSequences_call(inst.fixed_length_sequences, data))

-----------------------------------------------------------------------------
(* MapIDListFeatures *)

\* feature_config is known by its id2name mapping (empty: no identifier vocabulary)
MapIDListFeatures_init(id_list_keys, id_score_list_keys, feature_config) ==
    IF Range(id_list_keys) \cap Range(id_score_list_keys) = {}
    THEN Built([cls |-> "MapIDListFeatures", id_list_keys |-> id_list_keys,
                id_score_list_keys |-> id_score_list_keys,
                feature_config |-> feature_config])
    ELSE InitFails("AssertionError")

\* the sparse preprocessor's two entry points, known by what they were given
preprocess_id_list(v) == [kind |-> "id_list_features", of |-> v]
preprocess_id_score_list(v) == [kind |-> "id_score_list_features", of |-> v]

\* the loop of __call__ over id_list_keys + id_score_list_keys, from the i-th on
RECURSIVE MapIDListFeatures_loop(_, _, _, _)
MapIDListFeatures_loop(inst, keys, i, data) ==
    IF i > Len(keys) THEN Return(data, data, inst, <<>>)
    ELSE LET k == keys[i]
         IN  IF Len(inst.feature_config.id2name) = 0 \/ ~Has(data, k)
             THEN MapIDListFeatures_loop(inst, keys, i + 1, Set(data, k, PyNone))
             ELSE IF Get(data, k).kind # "dict"
             THEN Raise("AssertionError", data, inst, <<>>)
             ELSE IF k \in Range(inst.id_list_keys)
             THEN MapIDListFeatures_loop(inst, keys, i + 1,
                                         Set(data, k, preprocess_id_list(Get(data, k))))
             ELSE MapIDListFeatures_loop(inst, keys, i + 1,
                                         Set(data, k, preprocess_id_score_list(Get(data, k))))

MapIDListFeatures_call(inst, data) ==
    MapIDListFeatures_loop(inst, inst.id_list_keys \o inst.id_score_list_keys, 1, data)

-----------------------------------------------------------------------------
(* Compose *)

\* t(data) for a stage t: the __call__ of its class
Apply(inst, data) ==
    CASE inst.cls = "ValuePresence" -> ValuePresence_call(inst, data)
      [] inst.cls = "Rename" -> Rename_call(inst, data)
      [] inst.cls = "Filter" -> Filter_call(inst, data)
      [] inst.cls = "FixedLengthSequences" -> FixedLengthSequences_call(inst, data)
      [] inst.cls = "DenseNormalization" -> DenseNormalization_call(inst, data)
      [] inst.cls = "SlateView" -> SlateView_call(inst, data)
      [] inst.cls = "FixedLengthSequenceDenseNormalization" ->
             FixedLengthSequenceDenseNormalization_call(inst, data)
      [] inst.cls = "MapIDListFeatures" -> MapIDListFeatures_call(inst, data)

\* Rename and Filter build a new dict; every other transform returns the one it was given
ReturnsArgument(inst) == inst.cls \notin {"Rename", "Filter"}

Compose_init(transforms) == Built([cls |-> "Compose", transforms |-> transforms])

\* the loop of __call__ from the i-th transform on.  cur is the value of the
\* local `data`; passed is the dict the caller passed, which a stage changes
\* while the local still names it (aliased).  Compose_step is the rest of the
\* loop once `t(data)` of the i-th transform has ended as r.
RECURSIVE Compose_loop(_, _, _, _, _, _)
RECURSIVE Compose_step(_, _, _, _, _, _)

\* Compose_step with the error of a stage caught: the loop goes on to the next stage
Compose_step_swallow(transforms, i, r, passed, aliased, trace) ==
    Compose_loop([transforms EXCEPT ![i] = r.t], i + 1,
                 IF r.exc # "none" THEN r.data ELSE r.ret,
                 IF aliased THEN r.data ELSE passed,
                 aliased /\ ReturnsArgument(transforms[i]),
                 Append(trace, Stage(i, r.exc)))

Compose_step(transforms, i, r, passed, aliased, trace) ==
    IF r.exc # "none"
    THEN Raise(r.exc, IF aliased THEN r.data ELSE passed,
               [cls |-> "Compose", transforms |-> [transforms EXCEPT ![i] = r.t]],
               Append(trace, Stage(i, r.exc)))
    ELSE Compose_loop([transforms EXCEPT ![i] = r.t], i + 1, r.ret,
                      IF aliased THEN r.data ELSE passed,
                      aliased /\ ReturnsArgument(transforms[i]),
                      Append(trace, Stage(i, r.exc)))

Compose_loop(transforms, i, cur, passed, aliased, trace) ==
    IF i > Len(transforms)
    THEN Return(cur, passed, [cls |-> "Compose", transforms |-> transforms], trace)
    ELSE Compose_step(transforms, i, Apply(transforms[i], cur), passed, aliased, trace)

Compose_call(inst, data) == Compose_loop(inst.transforms, 1, data, data, TRUE, <<>>)

-----------------------------------------------------------------------------
(* Tensors with contents: shapes, indices, broadcasting *)

\* every index of a tensor of the given shape (coordinates from 1)
RECURSIVE Indices(_)
Indices(shape) ==
    IF Len(shape) = 0 THEN {<<>>}
    ELSE {<<i>> \o rest : i \in 1..shape[1], rest \in Indices(Tail(shape))}

\* a tensor given by its shape and the element at each index
DenseTensor(shape, elems) == [kind |-> "Tensor", shape |-> shape, elems |-> elems]

Max(S) == CHOOSE m \in S : \A x \in S : x <= m

\* list.pop(d): the position (from 0) that is removed; negative d counts from
\* the end
PopIndex(s, d) == IF d >= 0 THEN d ELSE Len(s) + d
CanPop(s, d) == PopIndex(s, d) \in 0..(Len(s) - 1)
Pop(s, d) == SubSeq(s, 1, PopIndex(s, d)) \o SubSeq(s, PopIndex(s, d) + 2, Len(s))

\* list.insert(d, x): d is clamped to the list, negative d counts from the end
InsertIndex(s, d) ==
    IF d >= 0 THEN (IF d > Len(s) THEN Len(s) ELSE d)
    ELSE (IF Len(s) + d < 0 THEN 0 ELSE Len(s) + d)
Insert(s, d, x) ==
    SubSeq(s, 1, InsertIndex(s, d)) \o <<x>> \o SubSeq(s, InsertIndex(s, d) + 1, Len(s))

\* t.shape[dim]
HasDim(shape, dim) == dim \in (0 - Len(shape))..(Len(shape) - 1)
SizeAt(shape, dim) == shape[(IF dim >= 0 THEN dim ELSE Len(shape) + dim) + 1]

\* a shape lined up on the right with a shape of n dimensions
Pad(shape, n) ==
    [i \in 1..n |-> IF i <= n - Len(shape) THEN 1 ELSE shape[i - (n - Len(shape))]]

\* torch.broadcast_shapes: the shapes are lined up on the right; in each
\* dimension the sizes other than 1 must all be the same, and that size (it
\* may be 0) is the result's, 1 when every size is 1
BroadcastRank(shapes) == Max({0} \cup {Len(shapes[j]) : j \in 1..Len(shapes)})
\* the sizes other than 1 found in dimension i
SizesAt(shapes, i) ==
    {Pad(shapes[j], BroadcastRank(shapes))[i] : j \in 1..Len(shapes)} \ {1}
broadcast_shapes(shapes) ==
    [i \in 1..BroadcastRank(shapes) |->
        IF SizesAt(shapes, i) = {} THEN 1 ELSE CHOOSE n \in SizesAt(shapes, i) : TRUE]
Broadcastable(shapes) ==
    \A i \in 1..BroadcastRank(shapes) :
        \A m \in SizesAt(shapes, i), n \in SizesAt(shapes, i) : m = n

\* Tensor.expand(shape): dimensions are lined up on the right; a dimension of
\* size 1 is repeated, any other must have the requested size; new dimensions
\* go in front
CanExpand(x, shape) ==
    /\ Len(shape) >= Len(x.shape)
    /\ \A i \in 1..Len(x.shape) :
          x.shape[i] \in {1, shape[Len(shape) - Len(x.shape) + i]}
expand(x, shape) ==
    DenseTensor(shape,
        [idx \in Indices(shape) |->
            x.elems[[i \in 1..Len(x.shape) |->
                        IF x.shape[i] = 1 THEN 1
                        ELSE idx[Len(shape) - Len(x.shape) + i]]]])

-----------------------------------------------------------------------------
(* OuterProduct *)

OuterProduct_init(key1, key2, output_key, drop_inputs) ==
    Built([cls |-> "OuterProduct", key1 |-> key1, key2 |-> key2,
           output_key |-> output_key, drop_inputs |-> drop_inputs])

\* the product of two elements
Times(a, b) == [mul |-> <<a, b>>]

\* all but the last dimension
Leading(shape) == SubSeq(shape, 1, Len(shape) - 1)

\* einsum("...i,...j->...ij") accepts vectors whose leading dimensions broadcast
CanProduct(x, y) ==
    /\ Len(x.shape) >= 1
    /\ Len(y.shape) >= 1
    /\ Broadcastable(<<Leading(x.shape), Leading(y.shape)>>)

\* einsum("...i,...j->...ij", (x, y)).flatten(start_dim=-2): entry i*n + j of
\* the last dimension is x[..., i] * y[..., j]
get_product_features(x, y) ==
    LET m == x.shape[Len(x.shape)]
        n == y.shape[Len(y.shape)]
        lead == broadcast_shapes(<<Leading(x.shape), Leading(y.shape)>>)
        xs == expand(x, Append(lead, m))
        ys == expand(y, Append(lead, n))
    IN  DenseTensor(Append(lead, m * n),
            [idx \in Indices(Append(lead, m * n)) |->
                Times(xs.elems[Append(Leading(idx), ((idx[Len(idx)] - 1) \div n) + 1)],
                      ys.elems[Append(Leading(idx), ((idx[Len(idx)] - 1) % n) + 1)])])

\* `del data[self.key1], data[self.key2]`: two deletions, one after the other
OuterProduct_drop(inst, data) ==
    IF ~Has(data, inst.key1) THEN Raise("KeyError", data, inst, <<>>)
    ELSE IF ~Has(Del(data, inst.key1), inst.key2)
         THEN Raise("KeyError", Del(data, inst.key1), inst, <<>>)
         ELSE Return(Del(Del(data, inst.key1), inst.key2),
                     Del(Del(data, inst.key1), inst.key2), inst, <<>>)

OuterProduct_call(inst, data) ==
    IF ~Has(data, inst.key1) \/ ~Has(data, inst.key2)
    THEN Raise("KeyError", data, inst, <<>>)
    ELSE IF ~CanProduct(Get(data, inst.key1), Get(data, inst.key2))
    THEN Raise("RuntimeError", data, inst, <<>>)
    ELSE IF inst.drop_inputs
    THEN OuterProduct_drop(inst,
            Set(data, inst.output_key,
                get_product_features(Get(data, inst.key1), Get(data, inst.key2))))
    ELSE Return(Set(data, inst.output_key,
                    get_product_features(Get(data, inst.key1), Get(data, inst.key2))),
                Set(data, inst.output_key,
                    get_product_features(Get(data, inst.key1), Get(data, inst.key2))),
                inst, <<>>)

-----------------------------------------------------------------------------
(* Cat *)

Cat_init(input_keys, output_key, dim, broadcast) ==
    Built([cls |-> "Cat", input_keys |-> input_keys, output_key |-> output_key,
           dim |-> dim, broadcast |-> broadcast])

\* the outcome of a tensor operation: an error, or the tensors it made
Fails(e) == [exc |-> e, tensors |-> <<>>]
Gives(tensors) == [exc |-> "none", tensors |-> tensors]

\* `dims`: the position of the concatenation dimension in each tensor
CatDims(tensors, dim) ==
    [j \in 1..Len(tensors) |-> IF dim >= 0 THEN dim ELSE Len(tensors[j].shape) + dim]

\* `final_shapes`: the common shape with each tensor's own size put back at
\* that tensor's position d
FinalShapes(tensors, dim) ==
    [j \in 1..Len(tensors) |->
        Insert(broadcast_shapes([i \in 1..Len(tensors) |->
                                    Pop(tensors[i].shape, CatDims(tensors, dim)[i])]),
               CatDims(tensors, dim)[j],
               SizeAt(tensors[j].shape, dim))]

broadcast_tensors_for_cat(tensors, dim) ==
    IF \E j \in 1..Len(tensors) : ~CanPop(tensors[j].shape, CatDims(tensors, dim)[j])
    THEN Fails("IndexError")
    ELSE IF ~Broadcastable([j \in 1..Len(tensors) |->
                               Pop(tensors[j].shape, CatDims(tensors, dim)[j])])
    THEN Fails("RuntimeError")
    ELSE IF \E j \in 1..Len(tensors) : ~HasDim(tensors[j].shape, dim)
    THEN Fails("IndexError")
    ELSE IF \E j \in 1..Len(tensors) :
                ~CanExpand(tensors[j], FinalShapes(tensors, dim)[j])
    THEN Fails("RuntimeError")
    ELSE Gives([j \in 1..Len(tensors) |->
                   expand(tensors[j], FinalShapes(tensors, dim)[j])])

\* the size along position d (from 1) of the first j tensors together
RECURSIVE SizeBefore(_, _, _)
SizeBefore(tensors, d, j) ==
    IF j = 0 THEN 0 ELSE SizeBefore(tensors, d, j - 1) + tensors[j].shape[d]

\* the tensor that the c-th entry along position d comes from
Source(tensors, d, c) ==
    CHOOSE j \in 1..Len(tensors) :
        SizeBefore(tensors, d, j - 1) < c /\ c <= SizeBefore(tensors, d, j)

\* torch.cat of the tensors that are not skipped
torch_cat_kept(tensors, dim) ==
    IF ~HasDim(tensors[1].shape, dim) THEN Fails("IndexError")
    ELSE IF \E j \in 1..Len(tensors) : Len(tensors[j].shape) # Len(tensors[1].shape)
    THEN Fails("RuntimeError")
    ELSE IF \E j \in 1..Len(tensors) :
                Pop(tensors[j].shape, dim) # Pop(tensors[1].shape, dim)
    THEN Fails("RuntimeError")
    ELSE LET d == PopIndex(tensors[1].shape, dim) + 1
             shape == [tensors[1].shape EXCEPT
                          ![d] = SizeBefore(tensors, d, Len(tensors))]
         IN Gives(<<DenseTensor(shape,
                [idx \in Indices(shape) |->
                    tensors[Source(tensors, d, idx[d])].elems[
                        [idx EXCEPT ![d] = idx[d] - SizeBefore(tensors, d,
                                              Source(tensors, d, idx[d]) - 1)]]])>>)

\* torch.cat(tensors, dim=dim): the list must not be empty, a tensor without
\* dimensions cannot be concatenated, and empty tensors of shape (0,) are
\* skipped; when all are skipped the result is empty and dim is not looked at
torch_cat(tensors, dim) ==
    IF Len(tensors) = 0 THEN Fails("RuntimeError")
    ELSE IF \E j \in 1..Len(tensors) : Len(tensors[j].shape) = 0
    THEN Fails("RuntimeError")
    ELSE IF \A j \in 1..Len(tensors) : tensors[j].shape = <<0>>
    THEN Gives(<<tensors[1]>>)
    ELSE torch_cat_kept(SelectSeq(tensors, LAMBDA x : x.shape # <<0>>), dim)

\* `data[self.output_key] = torch.cat(...)`, given how torch.cat ended
Cat_store(inst, data, c) ==
    IF c.exc # "none" THEN Raise(c.exc, data, inst, <<>>)
    ELSE Return(Set(data, inst.output_key, c.tensors[1]),
                Set(data, inst.output_key, c.tensors[1]), inst, <<>>)

\* the concatenation, given how the broadcasting ended
Cat_concat(inst, data, b) ==
    IF b.exc # "none" THEN Raise(b.exc, data, inst, <<>>)
    ELSE Cat_store(inst, data, torch_cat(b.tensors, inst.dim))

\* the list `tensors` collected from the record
Cat_tensors(inst, data) ==
    [j \in 1..Len(inst.input_keys) |-> Get(data, inst.input_keys[j])]

Cat_call(inst, data) ==
    IF \E j \in 1..Len(inst.input_keys) : ~Has(data, inst.input_keys[j])
    THEN Raise("KeyError", data, inst, <<>>)
    ELSE Cat_concat(inst, data,
            IF inst.broadcast
            THEN broadcast_tensors_for_cat(Cat_tensors(inst, data), inst.dim)
            ELSE Gives(Cat_tensors(inst, data)))

-----------------------------------------------------------------------------
(* Inputs *)

RECURSIVE Perms(_)
Perms(S) == IF S = {} THEN {<<>>}
            ELSE UNION {{<<x>> \o p : p \in Perms(S \ {x})} : x \in S}

\* every list without repetition over the names S
Orders(S) == UNION {Perms(Q) : Q \in SUBSET S}

\* every list of at most n names of S
RECURSIVE Lists(_, _)
Lists(S, n) == IF n = 0 THEN {<<>>}
               ELSE Lists(S, n - 1) \cup
                    {Append(l, x) : l \in {m \in Lists(S, n - 1) : Len(m) = n - 1}, x \in S}

\* the record holding, under each key of ks, the tensor named after the key
PlainRecord(ks) == [i \in 1..Len(ks) |-> [k |-> ks[i], v |-> Tensor(ks[i], <<2, 1>>)]]

PresenceNames == {"x", "x_presence", "x_presence_presence", "y"}
PresenceRecords == {PlainRecord(ks) : ks \in Orders(PresenceNames)}

FieldNames == {"a", "b", "c"}
FieldRecords == {PlainRecord(ks) : ks \in Orders(FieldNames)}
KeyLists == Lists(FieldNames, MaxKeys)
OptKeyLists == {PyNone} \cup {PyList(l) : l \in KeyLists}

(* Inputs of the sequence transforms *)

\* n offsets of the given stride, the one at position bad (if any) moved by one
Offsets(n, stride, bad) ==
    [i \in 1..n |-> (i - 1) * stride + (IF i = bad THEN 1 ELSE 0)]

\* the (value, presence) payload of a ragged sequence: two tensors of one shape
Payload(key, rows) ==
    PyTuple(Tensor(key \o ".value", <<rows, FeatureDim>>),
            Tensor(key \o ".presence", <<rows, FeatureDim>>))

\* a RaggedSequence field: sequence id 1 -> (offsets, payload)
Ragged(key, offsets, rows) ==
    PyDict(<<[k |-> 1, v |-> PyTuple(IntTensor(offsets), Payload(key, rows))]>>)

\* offsets are start positions in the flattened payload: they never decrease
NonDecreasing(offsets) ==
    \A i \in 1..(Len(offsets) - 1) : offsets[i] <= offsets[i + 1]

\* the batches of the field "s": 1..MaxBatch offsets of a stride 0..MaxStride,
\* exact or with one offset moved by one, over a payload of n * stride rows or
\* one row more
SequenceBatches ==
    {b \in [n : 1..MaxBatch, stride : 0..MaxStride, bad : 0..MaxBatch, extra : {0, 1}] :
        NonDecreasing(Offsets(b.n, b.stride, b.bad))}

\* records with a ragged field "s" and, in some, a second ragged field "u" that
\* has the stride of "s" or the next one; and the record with neither
SequenceRecords ==
    {<<>>} \cup
    UNION {
      LET s == [k |-> "s", v |-> Ragged("s", Offsets(b.n, b.stride, b.bad),
                                        b.n * b.stride + b.extra)]
      IN  { <<s>>,
            <<s, [k |-> "u", v |-> Ragged("u", Offsets(b.n, b.stride, 0),
                                          b.n * b.stride)]>>,
            <<s, [k |-> "u", v |-> Ragged("u", Offsets(b.n, b.stride + 1, 0),
                                          b.n * (b.stride + 1))]>> }
      : b \in SequenceBatches}

SequenceKeyLists == {<<>>, <<"s">>, <<"s", "u">>}
SequenceToKeys == {PyNone, PyList(<<>>), PyList(<<"v">>), PyList(<<"v", "w">>)}
SequenceIds == {1, 2}
ExpectedLengths == {PyNone, PyInt(ConfiguredLength)}

\* records for DenseNormalization: each of "a", "b" is missing, a (value,
\* presence) pair, a pair whose presence has another shape, a bare tensor of
\* two rows, or a bare tensor of three rows
DenseFieldValues(k) ==
    {<<>>,
     <<[k |-> k, v |-> PyTuple(Tensor(k, <<2, FeatureDim>>),
                              Tensor(k \o "_presence", <<2, FeatureDim>>))]>>,
     <<[k |-> k, v |-> PyTuple(Tensor(k, <<2, FeatureDim>>),
                              Tensor(k \o "_presence", <<3, FeatureDim>>))]>>,
     <<[k |-> k, v |-> Tensor(k, <<2, FeatureDim>>)]>>,
     <<[k |-> k, v |-> Tensor(k, <<3, FeatureDim>>)]>>}
DenseRecords == {x \o y : x \in DenseFieldValues("a"), y \in DenseFieldValues("b")}
DenseKeyLists == Lists({"a", "b"}, MaxKeys)

\* records for MapIDListFeatures: each of "i", "j" is missing, a mapping, or a tensor
SparseFieldValues(k) ==
    {<<>>,
     <<[k |-> k, v |-> PyDict(<<[k |-> 1, v |-> k]>>)]>>,
     <<[k |-> k, v |-> Tensor(k, <<2, 1>>)]>>}
SparseRecords == {x \o y : x \in SparseFieldValues("i"), y \in SparseFieldValues("j")}
SparseKeyLists == Lists({"i", "j"}, MaxKeys)
\* feature_config.id2name: empty, or one identifier
FeatureConfigs == {[id2name |-> <<>>], [id2name |-> <<[k |-> 1, v |-> "f"]>>]}

\* the transforms a Compose is built from, and the records it is called on
StageCatalogue ==
    { ValuePresence_init.t,
      Rename_init(<<"a">>, <<"b">>).t,
      Rename_init(<<"c">>, <<"a">>).t,
      Filter_init(PyList(<<"b">>), PyNone).t,
      Filter_init(PyNone, PyList(<<"a">>)).t,
      DenseNormalization_init(<<"a">>).t }
RECURSIVE Pipelines(_)
Pipelines(n) == IF n = 0 THEN {<<>>}
                ELSE Pipelines(n - 1) \cup
                     {Append(p, x) : p \in {q \in Pipelines(n - 1) : Len(q) = n - 1},
                                     x \in StageCatalogue}
ComposeNames == {"a", "a_presence", "b"}
ComposeRecords == {PlainRecord(ks) : ks \in Orders(ComposeNames)}

-----------------------------------------------------------------------------
\* every shape of r dimensions
RECURSIVE ShapesOfRank(_)
ShapesOfRank(r) ==
    IF r = 0 THEN {<<>>}
    ELSE {Append(s, n) : s \in ShapesOfRank(r - 1), n \in 1..MaxSize}

TensorShapes == UNION {ShapesOfRank(r) : r \in 1..MaxRank}
VectorShapes == UNION {ShapesOfRank(r) : r \in 1..2}

\* the tensor of the given shape whose element at idx is named (name, idx)
Filled(name, shape) ==
    DenseTensor(shape, [idx \in Indices(shape) |-> [of |-> name, at |-> idx]])

CatRecords ==
    { << [k |-> "p", v |-> Filled("p", sp)], [k |-> "q", v |-> Filled("q", sq)] >> :
        sp \in TensorShapes, sq \in TensorShapes }
CatKeyLists == {<<>>, <<"p">>, <<"p", "q">>, <<"p", "z">>}
CatOutputKeys == {"o", "p"}
CatDimensions == (0 - MaxRank)..(MaxRank - 1)

ProductRecords ==
    { << [k |-> "p", v |-> Filled("p", sp)], [k |-> "q", v |-> Filled("q", sq)],
         [k |-> "r", v |-> Filled("r", <<1>>)] >> :
        sp \in VectorShapes, sq \in VectorShapes }
ProductKeys == {"p", "q", "o"}

-----------------------------------------------------------------------------
(* The state machine *)

Init ==
    /\ t = NoInstance
    /\ op = "start"
    /\ arg = <<>>
    /\ res = [exc |-> "none"]

\* a constructor ran with arguments a and ended as r
Constructed(name, a, r) ==
    /\ t' = r.t
    /\ op' = name
    /\ arg' = a
    /\ res' = [exc |-> r.exc]

\* __call__ ran on the record data and ended as r
Called(name, data, r) ==
    /\ t' = r.t
    /\ op' = name
    /\ arg' = data
    /\ res' = Outcome(r)

NewValuePresence ==
    /\ t.cls = "none"
    /\ Constructed("ValuePresence.__init__", <<>>, ValuePresence_init)

CallValuePresence ==
    /\ t.cls = "ValuePresence"
    /\ \E data \in PresenceRecords :
         Called("ValuePresence.__call__", data, ValuePresence_call(t, data))

NewRename ==
    /\ t.cls = "none"
    /\ \E old_names \in KeyLists, new_names \in KeyLists :
        Constructed("Rename.__init__",
                    [old_names |-> old_names, new_names |-> new_names],
                    Rename_init(old_names, new_names))

CallRename ==
    /\ t.cls = "Rename"
    /\ \E data \in FieldRecords :
         Called("Rename.__call__", data, Rename_call(t, data))

NewFilter ==
    /\ t.cls = "none"
    /\ \E keep_keys \in OptKeyLists, remove_keys \in OptKeyLists :
        Constructed("Filter.__init__",
                    [keep_keys |-> keep_keys, remove_keys |-> remove_keys],
                    Filter_init(keep_keys, remove_keys))

CallFilter ==
    /\ t.cls = "Filter"
    /\ \E data \in FieldRecords :
         Called("Filter.__call__", data, Filter_call(t, data))

NewFixedLengthSequences ==
    /\ t.cls = "none"
    /\ \E keys \in SequenceKeyLists, sequence_id \in SequenceIds,
          expected_length \in ExpectedLengths, to_keys \in SequenceToKeys :
        Constructed("FixedLengthSequences.__init__",
                    [keys |-> keys, sequence_id |-> sequence_id,
                     expected_length |-> expected_length, to_keys |-> to_keys],
                    FixedLengthSequences_init(keys, sequence_id, expected_length, to_keys))

CallFixedLengthSequences ==
    /\ t.cls = "FixedLengthSequences"
    /\ \E data \in SequenceRecords :
         Called("FixedLengthSequences.__call__", data, FixedLengthSequences_call(t, data))

NewDenseNormalization ==
    /\ t.cls = "none"
    /\ \E keys \in DenseKeyLists :
        Constructed("DenseNormalization.__init__", [keys |-> keys],
                    DenseNormalization_init(keys))

CallDenseNormalization ==
    /\ t.cls = "DenseNormalization"
    /\ \E data \in DenseRecords :
         Called("DenseNormalization.__call__", data, DenseNormalization_call(t, data))

NewFixedLengthSequenceDenseNormalization ==
    /\ t.cls = "none"
    /\ \E keys \in SequenceKeyLists, sequence_id \in SequenceIds,
          expected_length \in ExpectedLengths :
        Constructed("FixedLengthSequenceDenseNormalization.__init__",
                    [keys |-> keys, sequence_id |-> sequence_id,
                     expected_length |-> expected_length],
                    FixedLengthSequenceDenseNormalization_init(keys, sequence_id,
                                                               expected_length))

CallFixedLengthSequenceDenseNormalization ==
    /\ t.cls = "FixedLengthSequenceDenseNormalization"
    /\ \E data \in SequenceRecords :
         Called("FixedLengthSequenceDenseNormalization.__call__", data,
                FixedLengthSequenceDenseNormalization_call(t, data))

NewMapIDListFeatures ==
    /\ t.cls = "none"
    /\ \E id_list_keys \in SparseKeyLists, id_score_list_keys \in SparseKeyLists,
          feature_config \in FeatureConfigs :
        Constructed("MapIDListFeatures.__init__",
                    [id_list_keys |-> id_list_keys,
                     id_score_list_keys |-> id_score_list_keys,
                     feature_config |-> feature_config],
                    MapIDListFeatures_init(id_list_keys, id_score_list_keys,
                                           feature_config))

CallMapIDListFeatures ==
    /\ t.cls = "MapIDListFeatures"
    /\ \E data \in SparseRecords :
         Called("MapIDListFeatures.__call__", data, MapIDListFeatures_call(t, data))

NewCompose ==
    /\ t.cls = "none"
    /\ \E transforms \in Pipelines(MaxStages) :
        Constructed("Compose.__init__", [transforms |-> transforms],
                    Compose_init(transforms))

CallCompose ==
    /\ t.cls = "Compose"
    /\ \E data \in ComposeRecords :
         Called("Compose.__call__", data, Compose_call(t, data))

Next ==
    \/ NewValuePresence
    \/ CallValuePresence
    \/ NewRename
    \/ CallRename
    \/ NewFilter
    \/ CallFilter
    \/ NewFixedLengthSequences
    \/ CallFixedLengthSequences
    \/ NewDenseNormalization
    \/ CallDenseNormalization
    \/ NewFixedLengthSequenceDenseNormalization
    \/ CallFixedLengthSequenceDenseNormalization
    \/ NewMapIDListFeatures
    \/ CallMapIDListFeatures
    \/ NewCompose
    \/ CallCompose

Spec == Init /\ [][Next]_vars

-----------------------------------------------------------------------------
(* The tensor-algebra transforms, explored on their own *)

NewOuterProduct ==
    /\ t.cls = "none"
    /\ \E key1 \in ProductKeys, key2 \in ProductKeys, output_key \in ProductKeys,
          drop_inputs \in BOOLEAN :
        Constructed("OuterProduct.__init__",
                    [key1 |-> key1, key2 |-> key2, output_key |-> output_key,
                     drop_inputs |-> drop_inputs],
                    OuterProduct_init(key1, key2, output_key, drop_inputs))

CallOuterProduct ==
    /\ t.cls = "OuterProduct"
    /\ \E data \in ProductRecords :
         Called("OuterProduct.__call__", data, OuterProduct_call(t, data))

NewCat ==
    /\ t.cls = "none"
    /\ \E input_keys \in CatKeyLists, output_key \in CatOutputKeys,
          dim \in CatDimensions, broadcast \in BOOLEAN :
        Constructed("Cat.__init__",
                    [input_keys |-> input_keys, output_key |-> output_key,
                     dim |-> dim, broadcast |-> broadcast],
                    Cat_init(input_keys, output_key, dim, broadcast))

CallCat ==
    /\ t.cls = "Cat"
    /\ \E data \in CatRecords :
         Called("Cat.__call__", data, Cat_call(t, data))

TensorNext ==
    \/ NewOuterProduct
    \/ CallOuterProduct
    \/ NewCat
    \/ CallCat

TensorSpec == Init /\ [][TensorNext]_vars

-----------------------------------------------------------------------------
(* Compose: order of the stages *)

\* what the first k transforms of ts return when each is given what the one
\* before it returned, the first being given data
RECURSIVE Piped(_, _, _)
Piped(ts, k, data) ==
    IF k = 0 THEN data ELSE Apply(ts[k], Piped(ts, k - 1, data)).ret

\* the stages called are the first ones of the list, in order, each once; only
\* the last one called can have raised; the call returns exactly when every
\* stage was called and none raised, and otherwise raises what the stage raised
ComposeTraceInOrder ==
    op = "Compose.__call__" =>
        LET n == Len(t.transforms)
            m == Len(res.trace)
        IN  /\ m <= n
            /\ \A j \in 1..m : res.trace[j].stage = j
            /\ \A j \in 1..(m - 1) : res.trace[j].exc = "none"
            /\ (res.exc = "none") <=> (m = n /\ \A j \in 1..m : res.trace[j].exc = "none")
            /\ res.exc # "none" => (m >= 1 /\ res.trace[m].exc = res.exc)

\* a call that returns, returns what the last stage made of what the one before
\* it returned, and so on down to the record passed in
ComposePipesOutputs ==
    [][(op' = "Compose.__call__" /\ res'.exc = "none")
          => res'.ret = Piped(t.transforms, Len(t.transforms), arg')]_vars

\* C1: a Compose call runs the transforms in list order, each at most once,
\* feeding each stage's output to the next; the stages run are a prefix of the
\* list, the whole list exactly when none raised, and an error of a stage stops
\* the call and reaches the caller.
C1_ComposeRunsStagesInOrder == []ComposeTraceInOrder /\ ComposePipesOutputs

\* a two-stage Compose whose first stage raised: the second was never called
C1_Witness ==
    /\ op = "Compose.__call__"
    /\ Len(t.transforms) = 2
    /\ Len(res.trace) = 1
    /\ res.exc = "KeyError"

-----------------------------------------------------------------------------
(* FixedLengthSequences: the cached stride *)

\* the offsets of field key for sequence id, in record data
OffsetsOf(data, key, id) == Get(Get(data, key).items, id).items[1].values
\* the payload of field key for sequence id, in record data
PayloadOf(data, key, id) == Get(Get(data, key).items, id).items[2]

\* a call that returns found, for every key, offsets[i] = i * stride with the
\* stride the instance holds
StrideChecked ==
    (op = "FixedLengthSequences.__call__" /\ res.exc = "none") =>
        \A j \in 1..Len(t.keys) :
            /\ t.expected_length.kind = "int"
            /\ LET offsets == OffsetsOf(arg, t.keys[j], t.sequence_id)
               IN  \A i \in 1..Len(offsets) :
                       offsets[i] = (i - 1) * t.expected_length.n

\* a call never changes a stride the instance holds, and a stride it sets is
\* read off the batch of the first key: the gap of its first two offsets when
\* it has more than one
StrideSetOnce ==
    [][op' = "FixedLengthSequences.__call__" =>
          /\ ~IsNone(t.expected_length) => t'.expected_length = t.expected_length
          /\ (IsNone(t.expected_length) /\ ~IsNone(t'.expected_length)) =>
                LET offsets == OffsetsOf(arg', t.keys[1], t.sequence_id)
                IN  Len(offsets) > 1 => t'.expected_length.n = offsets[2] - offsets[1]]_vars

\* C2: on a FixedLengthSequences instance the stride is inferred once, from the
\* first batch, is cached and never changed by a later call; every call either
\* finds offsets[i] = i * stride for that stride, for every key, or raises.
C2_StrideInferredOnceThenEnforced == []StrideChecked /\ StrideSetOnce

\* an instance that inferred the stride 3 from an earlier batch is given the
\* offsets [0, 2, 4] and raises
C2_Witness ==
    /\ op = "FixedLengthSequences.__call__"
    /\ t.expected_length = PyInt(3)
    /\ Has(arg, "s")
    /\ OffsetsOf(arg, "s", 1) = <<0, 2, 4>>
    /\ t.keys = <<"s">> /\ t.sequence_id = 1
    /\ res.exc = "AssertionError"

-----------------------------------------------------------------------------
(* ValuePresence *)

\* C3: for every record and every field x with a sibling x_presence, whatever
\* the other names, ValuePresence returns without error a record where x holds
\* (original x, original x_presence) and x_presence is gone; a field without a
\* sibling is untouched.  (The code does not do this when a presence field has
\* a presence field of its own.)
C3_ValuePresencePairsEverySibling ==
    op = "ValuePresence.__call__" =>
        /\ res.exc = "none"
        /\ \A x \in Keys(arg) :
              IF Has(arg, x \o "_presence")
              THEN /\ Has(res.ret, x)
                   /\ Get(res.ret, x) = PyTuple(Get(arg, x), Get(arg, x \o "_presence"))
                   /\ ~Has(res.ret, x \o "_presence")
              ELSE (\E y \in Keys(arg) : x = y \o "_presence") \/
                   (Has(res.ret, x) /\ Get(res.ret, x) = Get(arg, x))

-----------------------------------------------------------------------------
(* FixedLengthSequenceDenseNormalization *)

CompositeStages == <<"FixedLengthSequences", "DenseNormalization", "SlateView">>

\* C4: every call of FixedLengthSequenceDenseNormalization runs its stages in
\* the order FixedLengthSequences, DenseNormalization, SlateView; when SlateView
\* is called its slate_size is the stride the embedded FixedLengthSequences
\* holds, not the -1 it was built with; a call that returns has written the
\* reshaped, normalized payload of every field under "{field}:{sequence_id}".
C4_CompositeOrderAndSlateSize ==
    op = "FixedLengthSequenceDenseNormalization.__call__" =>
        LET m == Len(res.trace)
            fls == t.fixed_length_sequences
        IN  /\ 1 <= m /\ m <= 3
            /\ \A j \in 1..m : res.trace[j].stage = CompositeStages[j]
            /\ \A j \in 1..(m - 1) : res.trace[j].exc = "none"
            /\ res.exc = res.trace[m].exc
            /\ res.exc = "none" => m = 3
            /\ m = 3 =>
                 /\ t.slate_view.slate_size = fls.expected_length
                 /\ fls.keys # <<>> =>
                      (t.slate_view.slate_size.kind = "int" /\ t.slate_view.slate_size.n # -1)
            /\ res.exc = "none" =>
                 \A j \in 1..Len(fls.keys) :
                   LET name == fls.keys[j] \o ":" \o ToString(fls.sequence_id)
                       payload == PayloadOf(arg, fls.keys[j], fls.sequence_id)
                       normalized == Preprocess(t.dense_normalization.preprocessor,
                                                payload.items[1], payload.items[2])
                       stride == fls.expected_length.n
                   IN  /\ Has(res.ret, name)
                       /\ Get(res.ret, name) =
                            Tensor(normalized.id,
                                   <<normalized.shape[1] \div stride, stride,
                                     normalized.shape[2]>>)

\* a call on two fields that returned, with the inferred stride 3 as slate size
C4_Witness ==
    /\ op = "FixedLengthSequenceDenseNormalization.__call__"
    /\ res.exc = "none"
    /\ t.fixed_length_sequences.keys = <<"s", "u">>
    /\ t.slate_view.slate_size = PyInt(3)
    /\ Has(res.ret, "u:1")

-----------------------------------------------------------------------------
(* Filter and Rename *)

\* C5: Filter with a keep-list K (any list, the empty one included) returns the
\* fields of K that the record has, with their values; Filter with a
\* remove-list L returns the fields not in L; the record passed in is not
\* changed.  (The code raises TypeError for keep_keys=[].)
C5_FilterKeepsOrRemovesExactly ==
    op = "Filter.__call__" =>
        /\ res.exc = "none"
        /\ res.data = arg
        /\ Keys(res.ret) = IF ~IsNone(t.keep_keys)
                           THEN Range(t.keep_keys.items) \cap Keys(arg)
                           ELSE Keys(arg) \ Range(t.remove_keys.items)
        /\ \A k \in Keys(res.ret) : Get(res.ret, k) = Get(arg, k)

NoRepeats(list) == Cardinality(Range(list)) = Len(list)

\* C6: Rename(old, new) with lists of equal length, on a record holding all old
\* names, returns a new record where new[i] holds what the record held under
\* old[i] for every i, as one parallel mapping (a swap keeps both values),
\* keeps the fields not named, and leaves the record passed in unchanged.
\* Stated for lists without repeated names.  (The code renames one pair after
\* the other, so a swap or a chain loses a value.)
C6_RenameIsParallel ==
    ( /\ op = "Rename.__call__"
      /\ Len(t.old_names) = Len(t.new_names)
      /\ NoRepeats(t.old_names) /\ NoRepeats(t.new_names)
      /\ Range(t.old_names) \subseteq Keys(arg) ) =>
        /\ res.exc = "none"
        /\ res.data = arg
        /\ \A i \in 1..Len(t.old_names) :
              /\ Has(res.ret, t.new_names[i])
              /\ Get(res.ret, t.new_names[i]) = Get(arg, t.old_names[i])
        /\ \A k \in Keys(arg) \ (Range(t.old_names) \cup Range(t.new_names)) :
              Has(res.ret, k) /\ Get(res.ret, k) = Get(arg, k)

-----------------------------------------------------------------------------
(* Constructors *)

\* C7: every misconfiguration is raised by the constructor: Filter given both
\* or neither of keep_keys and remove_keys, Rename given lists of different
\* lengths, FixedLengthSequences given to_keys of another length than keys,
\* MapIDListFeatures given overlapping key sets; no misconfigured instance
\* exists.  (Rename.__init__ checks nothing.)
C7_MisconfigurationRaisedAtConstruction ==
    /\ (op = "Filter.__init__" /\ IsNone(arg.keep_keys) = IsNone(arg.remove_keys))
          => res.exc # "none"
    /\ (op = "Rename.__init__" /\ Len(arg.old_names) # Len(arg.new_names))
          => res.exc # "none"
    /\ (op = "FixedLengthSequences.__init__" /\ Truthy(arg.to_keys)
           /\ Len(arg.to_keys.items) # Len(arg.keys))
          => res.exc # "none"
    /\ (op = "MapIDListFeatures.__init__"
           /\ Range(arg.id_list_keys) \cap Range(arg.id_score_list_keys) # {})
          => res.exc # "none"
    /\ t.cls = "Rename" => Len(t.old_names) = Len(t.new_names)
    /\ t.cls = "Filter" => IsNone(t.keep_keys) # IsNone(t.remove_keys)
    /\ t.cls = "FixedLengthSequences" => Len(t.keys) = Len(t.to_keys)
    /\ t.cls = "MapIDListFeatures" =>
          Range(t.id_list_keys) \cap Range(t.id_score_list_keys) = {}

-----------------------------------------------------------------------------
(* MapIDListFeatures *)

DeclaredKeys(inst) == Range(inst.id_list_keys) \cup Range(inst.id_score_list_keys)
HasVocabulary(inst) == Len(inst.feature_config.id2name) > 0
\* what the encoder for key k makes of the value v
Encoded(inst, k, v) ==
    IF k \in Range(inst.id_list_keys)
    THEN [kind |-> "id_list_features", of |-> v]
    ELSE [kind |-> "id_score_list_features", of |-> v]

\* C8: with no vocabulary every declared field becomes None; with a
\* vocabulary the call raises or the field, a mapping, is replaced by its
\* encoder's output, and a missing field is never turned into None.  (The
\* code sets a declared field that the record lacks to None whatever the
\* configuration: `or k not in data`.)
C8_AbsentOnlyByConfiguration ==
    (op = "MapIDListFeatures.__call__" /\ res.exc = "none") =>
        \A k \in DeclaredKeys(t) :
            IF ~HasVocabulary(t)
            THEN Get(res.ret, k) = PyNone
            ELSE /\ Has(arg, k)
                 /\ Get(arg, k).kind = "dict"
                 /\ Get(res.ret, k) = Encoded(t, k, Get(arg, k))

-----------------------------------------------------------------------------
(* DenseNormalization: the lazily built Preprocessor *)

\* no Preprocessor after construction; after any call, failed or not, the one
\* and only Preprocessor the instance ever built; a configured field missing
\* from the record makes the call raise
PreprocessorBuiltOnce ==
    /\ op = "DenseNormalization.__init__" => (IsNone(t.preprocessor) /\ t.built = 0)
    /\ op = "DenseNormalization.__call__" =>
          /\ t.built = 1
          /\ t.preprocessor = [kind |-> "Preprocessor", serial |-> 1]
          /\ (\E k \in Range(t.keys) : ~Has(arg, k)) => res.exc # "none"

\* the call that finds no Preprocessor constructs it; every other call
\* constructs nothing and keeps the object
PreprocessorReused ==
    [][op' = "DenseNormalization.__call__" =>
          IF IsNone(t.preprocessor)
          THEN res'.trace = <<Stage("Preprocessor.__init__", "none")>>
          ELSE res'.trace = <<>> /\ t'.preprocessor = t.preprocessor]_vars

\* C9: the normalization object does not exist after construction, is
\* constructed during the first call, and at most once: every later call, also
\* after a failed one, reuses it; a missing configured field fails the call.
C9_PreprocessorLazyAndBuiltOnce == []PreprocessorBuiltOnce /\ PreprocessorReused

\* a later call (it constructed nothing) that failed on a missing field
C9_Witness ==
    /\ op = "DenseNormalization.__call__"
    /\ res.trace = <<>>
    /\ res.exc = "KeyError"
    /\ t.keys = <<"a", "b">>
    /\ Has(arg, "a") /\ ~Has(arg, "b")

-----------------------------------------------------------------------------
(* FixedLengthSequences: what is stored *)

\* C10 as claimed: after a call that returned, every destination field holds
\* the raw values of the payload, the presence being dropped.
C10_DestinationHoldsValuesOnly ==
    (op = "FixedLengthSequences.__call__" /\ res.exc = "none") =>
        \A j \in 1..Len(t.keys) :
            Get(res.ret, t.to_keys[j]) = PayloadOf(arg, t.keys[j], t.sequence_id).items[1]

\* C10, amended: after a call that returned, every destination field (the key,
\* or its to_keys entry) holds the whole payload of the selected sequence id,
\* the (value, presence) pair, unchanged.
C10_DestinationHoldsPayload ==
    (op = "FixedLengthSequences.__call__" /\ res.exc = "none") =>
        \A j \in 1..Len(t.keys) :
            /\ Has(res.ret, t.to_keys[j])
            /\ Get(res.ret, t.to_keys[j]) = PayloadOf(arg, t.keys[j], t.sequence_id)
            /\ Get(res.ret, t.to_keys[j]).kind = "tuple"

\* a call on two fields with to_keys given returned: "v" holds a pair
C10_Witness ==
    /\ op = "FixedLengthSequences.__call__"
    /\ res.exc = "none"
    /\ t.keys = <<"s", "u">> /\ t.to_keys = <<"v", "w">>
    /\ Get(res.ret, "v") = PayloadOf(arg, "s", 1)
    /\ Get(res.ret, "v").kind = "tuple"

-----------------------------------------------------------------------------
(* Cat with broadcasting *)

\* the tensors a Cat call was given, and each one's size along the
\* concatenation dimension
CatInputs == [j \in 1..Len(t.input_keys) |-> Get(arg, t.input_keys[j])]
CatSizes == [j \in 1..Len(t.input_keys) |-> SizeAt(CatInputs[j].shape, t.dim)]
\* their shapes with the concatenation dimension taken out, and the common
\* shape these broadcast to
CatRemoved == [j \in 1..Len(t.input_keys) |-> Pop(CatInputs[j].shape, t.dim)]
CatCommon == broadcast_shapes(CatRemoved)
\* where (from 0) the concatenation dimension lies in the result
CatPlace == IF t.dim >= 0 THEN t.dim ELSE Len(CatCommon) + 1 + t.dim

RECURSIVE SumFirst(_, _)
SumFirst(sizes, j) == IF j = 0 THEN 0 ELSE SumFirst(sizes, j - 1) + sizes[j]

CatExpectedShape == Insert(CatCommon, CatPlace, SumFirst(CatSizes, Len(CatSizes)))

\* the element the result holds at idx: it lies in the part of input j, at
\* that input's own index, a broadcast dimension of size 1 being repeated
CatExpectedElement(idx) ==
    LET c == idx[CatPlace + 1]
        j == CHOOSE i \in 1..Len(CatSizes) :
                 SumFirst(CatSizes, i - 1) < c /\ c <= SumFirst(CatSizes, i)
        rest == Pop(idx, CatPlace)
        own == [i \in 1..Len(CatRemoved[j]) |->
                   IF CatRemoved[j][i] = 1 THEN 1
                   ELSE rest[Len(rest) - Len(CatRemoved[j]) + i]]
    IN  [of |-> t.input_keys[j],
         at |-> Insert(own, PopIndex(CatInputs[j].shape, t.dim),
                       c - SumFirst(CatSizes, j - 1))]

\* C11: Cat with broadcast=True, given at least one tensor, each having the
\* concatenation dimension, whose shapes without that dimension broadcast
\* together, succeeds for every dim, negative or not; output_key then holds a
\* tensor of the common shape with the sum of the inputs' sizes at the
\* concatenation dimension, each input's values repeated along the
\* dimensions it was broadcast in.  (With inputs of different numbers of
\* dimensions the code puts the concatenation dimension back at the input's
\* own position instead of its position in the common shape.)
C11_CatBroadcastsThenConcatenates ==
    ( /\ op = "Cat.__call__"
      /\ t.broadcast
      /\ Len(t.input_keys) >= 1
      /\ \A j \in 1..Len(t.input_keys) : Has(arg, t.input_keys[j])
      /\ \A j \in 1..Len(t.input_keys) : HasDim(CatInputs[j].shape, t.dim)
      /\ Broadcastable(CatRemoved) )
    => /\ res.exc = "none"
       /\ Has(res.ret, t.output_key)
       /\ Get(res.ret, t.output_key).shape = CatExpectedShape
       /\ \A idx \in Indices(CatExpectedShape) :
              Get(res.ret, t.output_key).elems[idx] = CatExpectedElement(idx)

-----------------------------------------------------------------------------
(* OuterProduct *)

\* the flattened outer product, row by row, of two tensors of vectors
RowProducts(x, y) ==
    DenseTensor(Append(Leading(x.shape), x.shape[Len(x.shape)] * y.shape[Len(y.shape)]),
        [idx \in Indices(Append(Leading(x.shape),
                                x.shape[Len(x.shape)] * y.shape[Len(y.shape)])) |->
            Times(x.elems[Append(Leading(idx),
                                 ((idx[Len(idx)] - 1) \div y.shape[Len(y.shape)]) + 1)],
                  y.elems[Append(Leading(idx),
                                 ((idx[Len(idx)] - 1) % y.shape[Len(y.shape)]) + 1)])])

\* C12: for any three key names, on a record holding key1 and key2 (vectors
\* of lengths m and n in rows of the same layout) OuterProduct returns;
\* output_key holds the flattened outer product, of length m*n, of each row;
\* with drop_inputs the source fields are gone and the output field is there,
\* without drop_inputs the source fields are kept; every other field is
\* unchanged.  (With drop_inputs the code deletes key1 and then key2 after
\* storing the output: key1 = key2 raises KeyError, and an output_key equal
\* to a source key is deleted.)
C12_OuterProductFlattensAndDrops ==
    ( /\ op = "OuterProduct.__call__"
      /\ Has(arg, t.key1)
      /\ Has(arg, t.key2)
      /\ Leading(Get(arg, t.key1).shape) = Leading(Get(arg, t.key2).shape) )
    => /\ res.exc = "none"
       /\ Has(res.ret, t.output_key)
       /\ Get(res.ret, t.output_key) = RowProducts(Get(arg, t.key1), Get(arg, t.key2))
       /\ t.drop_inputs =>
             \A k \in {t.key1, t.key2} \ {t.output_key} : ~Has(res.ret, k)
       /\ ~t.drop_inputs =>
             \A k \in {t.key1, t.key2} \ {t.output_key} :
                 Has(res.ret, k) /\ Get(res.ret, k) = Get(arg, k)
       /\ \A k \in Keys(arg) \ {t.key1, t.key2, t.output_key} :
             Has(res.ret, k) /\ Get(res.ret, k) = Get(arg, k)

====
